---- MODULE Spec2Model ----
(***************************************************************************)
(* Model of package otelx: the process-wide telemetry state (memoized     *)
(* collector connection, active tracer, instrument pair), the two setup    *)
(* functions, the span helper, the HTTP middleware and the two gRPC        *)
(* interceptors.                                                           *)
(***************************************************************************)
EXTENDS Integers, Sequences, FiniteSets, TLC

\* ------------------------------------------------------------------ bounds
\* Providers (tracer and meter together) that may be built in one run.
MaxProviders == 2
\* Collector connections that may be opened in one run.
MaxConns == 2
\* Calls the wrapped HTTP handler makes on its response writer.
MaxWrites == 2

\* ------------------------------------------------------- program constants
StatusOK == 200
StatusNotFound == 404
\* codes.OK, the code status.Code returns for a nil error
CodeOK == 0
\* codes.Unknown, the code status.Code returns for a non-status error
CodeUnknown == 2
\* codes.NotFound, a sample status error a handler returns
CodeNotFound == 5

\* nil pointer / nil interface value
Nil == 0

\* ------------------------------------------------------------ environment
\* Strings are sequences of characters.
STR_true == <<"t", "r", "u", "e">>
STR_TRUE == <<"T", "R", "U", "E">>
STR_True == <<"T", "r", "u", "e">>
STR_false == <<"f", "a", "l", "s", "e">>
STR_empty == <<>>
STR_endpoint == <<"h", ":", "4">>

\* unicode.ToLower on the characters that occur
ToLowerChar(c) ==
    CASE c = "T" -> "t"
      [] c = "R" -> "r"
      [] c = "U" -> "u"
      [] c = "E" -> "e"
      [] OTHER -> c

\* strings.ToLower
ToLower(s) == [i \in 1..Len(s) |-> ToLowerChar(s[i])]

\* An environment variable is unset, or set to a value (possibly empty).
Unset == [set |-> FALSE, val |-> STR_empty]
EnvSet(v) == [set |-> TRUE, val |-> v]

EnableEnv == {Unset} \cup {EnvSet(v) : v \in {STR_true, STR_TRUE, STR_True, STR_false}}
EndpointEnv == {Unset} \cup {EnvSet(v) : v \in {STR_empty, STR_endpoint}}

\* os.Getenv: the value, or "" when the variable is unset
Getenv(e) == IF e.set THEN e.val ELSE STR_empty

\* os.LookupEnv: the value and whether the variable is present
LookupEnv(e) == [val |-> Getenv(e), ok |-> e.set]

VARIABLES
    OTEL_ENABLE,              \* environment variable OTEL_ENABLE
    OTEL_COLLECTOR_ENDPOINT,  \* environment variable OTEL_COLLECTOR_ENDPOINT
    grpcConnection,           \* package variable: Nil or the id of the memoized connection
    tracer,                   \* package variable: nil, a noop tracer or a tracer of provider tp
    metrics,                  \* package variable: the instrument pair
    connsOpened,              \* connections grpc.NewClient has created so far
    tpBuilt,                  \* tracer providers built so far (ids 1..tpBuilt)
    mpBuilt,                  \* meter providers built so far (ids 1..mpBuilt)
    tpShutdown,               \* tracer providers whose Shutdown has run
    mpShutdown,               \* meter providers whose Shutdown has run
    mpReturned,               \* meter providers whose shutdown closure was returned
    otelGlobal,               \* the otel package's registered providers and propagator
    last,                     \* the most recent call into the package and what it returned
    inflight                  \* per goroutine: the setup call it is in the middle of

vars == <<OTEL_ENABLE, OTEL_COLLECTOR_ENDPOINT, grpcConnection, tracer, metrics,
          connsOpened, tpBuilt, mpBuilt, tpShutdown, mpShutdown, mpReturned,
          otelGlobal, last, inflight>>

env == <<OTEL_ENABLE, OTEL_COLLECTOR_ENDPOINT>>
providers == <<tpBuilt, mpBuilt, tpShutdown, mpShutdown, mpReturned>>

\* ---------------------------------------------------------------- values
NilTracer == [kind |-> "nil", tp |-> Nil]
NoopTracer == [kind |-> "noop", tp |-> Nil]
SdkTracer(tp) == [kind |-> "sdk", tp |-> tp]

\* type Metrics struct; an instrument is Nil or the id of the meter provider that made it
Metrics(counter, histogram) == [RequestCounter |-> counter, RequestHistogram |-> histogram]

NoSpan == [tracer |-> "none", tp |-> Nil, name |-> "none"]

\* Goroutines that may call the setup functions at the same time.
Goroutines == {"g1", "g2"}

\* A goroutine outside any setup call.  In a call, pc is the statement of
\* initCollector it is about to execute and conn, err are initCollector's
\* local conn and the error it returns.
Idle == [op |-> "none", pc |-> "idle", conn |-> Nil, err |-> "none", opened |-> FALSE]

\* What a call returned and did; fields a call does not use keep these values.
NoCall ==
    [op |-> "none", err |-> "none", conn |-> Nil, opened |-> FALSE,
     tp |-> Nil, cleanup |-> Nil, enabled |-> FALSE, span |-> NoSpan,
     panicked |-> FALSE, handler |-> <<>>, wire |-> Nil, status |-> Nil,
     method |-> "none", code |-> Nil, adds |-> <<>>, records |-> <<>>,
     ret |-> [resp |-> "none", err |-> [kind |-> "none", code |-> Nil]]]

Init ==
    /\ OTEL_ENABLE \in EnableEnv
    /\ OTEL_COLLECTOR_ENDPOINT \in EndpointEnv
    /\ grpcConnection = Nil
    /\ tracer = NilTracer
    /\ metrics = Metrics(Nil, Nil)
    /\ connsOpened = 0
    /\ tpBuilt = 0
    /\ mpBuilt = 0
    /\ tpShutdown = {}
    /\ mpShutdown = {}
    /\ mpReturned = {}
    /\ otelGlobal = [TracerProvider |-> Nil, MeterProvider |-> Nil, Propagator |-> FALSE]
    /\ last = NoCall
    /\ inflight = [g \in Goroutines |-> Idle]

\* The application (or its launcher) changes the environment: os.Setenv / os.Unsetenv.
Setenv ==
    /\ \/ OTEL_ENABLE' \in EnableEnv \ {OTEL_ENABLE} /\ UNCHANGED OTEL_COLLECTOR_ENDPOINT
       \/ OTEL_COLLECTOR_ENDPOINT' \in EndpointEnv \ {OTEL_COLLECTOR_ENDPOINT} /\ UNCHANGED OTEL_ENABLE
    /\ UNCHANGED <<grpcConnection, tracer, metrics, connsOpened, providers, otelGlobal, last,
                   inflight>>

\* func IsEnabled() bool
IsEnabledValue ==
    LET l == LookupEnv(OTEL_COLLECTOR_ENDPOINT)
    IN  Getenv(OTEL_ENABLE) = STR_true /\ l.ok

IsEnabled ==
    /\ last' = [NoCall EXCEPT !.op = "IsEnabled", !.enabled = IsEnabledValue]
    /\ UNCHANGED <<env, inflight, grpcConnection, tracer, metrics, connsOpened, providers, otelGlobal>>

\* initCollector without the early return of the cached connection.
initCollector_NoMemo(dialOK) ==
    IF ToLower(Getenv(OTEL_ENABLE)) # STR_true
    THEN [conn |-> Nil, err |-> "Disabled",
          grpcConnection |-> grpcConnection, connsOpened |-> connsOpened]
    ELSE IF Getenv(OTEL_COLLECTOR_ENDPOINT) = STR_empty
    THEN [conn |-> Nil, err |-> "MissingEndpoint",
          grpcConnection |-> grpcConnection, connsOpened |-> connsOpened]
    ELSE IF ~dialOK
    THEN [conn |-> Nil, err |-> "ConnectionFailed",
          grpcConnection |-> grpcConnection, connsOpened |-> connsOpened]
    ELSE [conn |-> connsOpened + 1, err |-> "none",
          grpcConnection |-> connsOpened + 1, connsOpened |-> connsOpened + 1]

\* initCollector that tests OTEL_ENABLE and the endpoint before the cached connection.
initCollector_GateFirst(dialOK) ==
    IF ToLower(Getenv(OTEL_ENABLE)) # STR_true
    THEN [conn |-> Nil, err |-> "Disabled",
          grpcConnection |-> grpcConnection, connsOpened |-> connsOpened]
    ELSE IF Getenv(OTEL_COLLECTOR_ENDPOINT) = STR_empty
    THEN [conn |-> Nil, err |-> "MissingEndpoint",
          grpcConnection |-> grpcConnection, connsOpened |-> connsOpened]
    ELSE IF grpcConnection # Nil
    THEN [conn |-> grpcConnection, err |-> "none",
          grpcConnection |-> grpcConnection, connsOpened |-> connsOpened]
    ELSE IF ~dialOK
    THEN [conn |-> Nil, err |-> "ConnectionFailed",
          grpcConnection |-> grpcConnection, connsOpened |-> connsOpened]
    ELSE [conn |-> connsOpened + 1, err |-> "none",
          grpcConnection |-> connsOpened + 1, connsOpened |-> connsOpened + 1]

\* func initCollector() (*grpc.ClientConn, error)
\* dialOK: whether grpc.NewClient succeeds.  The result carries the returned
\* (conn, err) and the values of grpcConnection and connsOpened on return.
initCollector(dialOK) ==
    IF grpcConnection # Nil
    THEN [conn |-> grpcConnection, err |-> "none",
          grpcConnection |-> grpcConnection, connsOpened |-> connsOpened]
    ELSE IF ToLower(Getenv(OTEL_ENABLE)) # STR_true
    THEN [conn |-> Nil, err |-> "Disabled",
          grpcConnection |-> grpcConnection, connsOpened |-> connsOpened]
    ELSE IF Getenv(OTEL_COLLECTOR_ENDPOINT) = STR_empty
    THEN [conn |-> Nil, err |-> "MissingEndpoint",
          grpcConnection |-> grpcConnection, connsOpened |-> connsOpened]
    ELSE IF ~dialOK
    THEN [conn |-> Nil, err |-> "ConnectionFailed",
          grpcConnection |-> grpcConnection, connsOpened |-> connsOpened]
    ELSE [conn |-> connsOpened + 1, err |-> "none",
          grpcConnection |-> connsOpened + 1, connsOpened |-> connsOpened + 1]

\* Where a setup call's external collaborators may fail.
TraceFailures == {"none", "dial", "exporter", "resource"}
MeterFailures == TraceFailures \cup {"counter", "histogram"}

\* NewTraceProvider that does not install the noop tracer when initCollector fails.
NewTraceProvider_NoFallback(failAt) ==
    LET dialOK == failAt # "dial"
        exporterOK == failAt # "exporter"
        resourceOK == failAt # "resource"
        c == initCollector(dialOK)
        call == [NoCall EXCEPT !.op = "NewTraceProvider", !.conn = c.conn,
                               !.opened = (c.connsOpened # connsOpened)]
    IN  /\ tpBuilt + mpBuilt < MaxProviders
        /\ connsOpened < MaxConns
        /\ grpcConnection' = c.grpcConnection
        /\ connsOpened' = c.connsOpened
        /\ IF c.err # "none"
           THEN /\ last' = [call EXCEPT !.err = c.err]
                /\ UNCHANGED <<tracer, tpBuilt, otelGlobal>>
           ELSE IF ~exporterOK
           THEN /\ last' = [call EXCEPT !.err = "ExporterBuildFailed"]
                /\ UNCHANGED <<tracer, tpBuilt, otelGlobal>>
           ELSE IF ~resourceOK
           THEN /\ last' = [call EXCEPT !.err = "ResourceBuildFailed"]
                /\ UNCHANGED <<tracer, tpBuilt, otelGlobal>>
           ELSE LET tp == tpBuilt + 1
                IN  /\ tpBuilt' = tp
                    /\ otelGlobal' = [otelGlobal EXCEPT !.TracerProvider = tp,
                                                        !.Propagator = TRUE]
                    /\ tracer' = SdkTracer(tp)
                    /\ last' = [call EXCEPT !.tp = tp, !.cleanup = tp]
        /\ UNCHANGED <<env, inflight, metrics, mpBuilt, mpReturned, tpShutdown, mpShutdown>>

\* func NewTraceProvider(ctx, service) (*sdktrace.TracerProvider, func())
\* failAt: the first external call that fails if it is made (grpc.NewClient,
\* otlptracegrpc.New, newResource), or "none".
NewTraceProvider(failAt) ==
    LET dialOK == failAt # "dial"
        exporterOK == failAt # "exporter"
        resourceOK == failAt # "resource"
        c == initCollector(dialOK)
        call == [NoCall EXCEPT !.op = "NewTraceProvider", !.conn = c.conn,
                               !.opened = (c.connsOpened # connsOpened)]
    IN  /\ tpBuilt + mpBuilt < MaxProviders
        /\ connsOpened < MaxConns
        /\ grpcConnection' = c.grpcConnection
        /\ connsOpened' = c.connsOpened
        /\ IF c.err # "none"
           THEN /\ tracer' = NoopTracer
                /\ last' = [call EXCEPT !.err = c.err]
                /\ UNCHANGED <<tpBuilt, otelGlobal>>
           ELSE IF ~exporterOK
           THEN /\ last' = [call EXCEPT !.err = "ExporterBuildFailed"]
                /\ UNCHANGED <<tracer, tpBuilt, otelGlobal>>
           ELSE IF ~resourceOK
           THEN /\ last' = [call EXCEPT !.err = "ResourceBuildFailed"]
                /\ UNCHANGED <<tracer, tpBuilt, otelGlobal>>
           ELSE LET tp == tpBuilt + 1
                IN  /\ tpBuilt' = tp
                    /\ otelGlobal' = [otelGlobal EXCEPT !.TracerProvider = tp,
                                                        !.Propagator = TRUE]
                    /\ tracer' = SdkTracer(tp)
                    /\ last' = [call EXCEPT !.tp = tp, !.cleanup = tp]
        /\ UNCHANGED <<env, inflight, metrics, mpBuilt, mpReturned, tpShutdown, mpShutdown>>

\* NewMeterProvider that stores the counter but not the histogram.
NewMeterProvider_CounterOnly(failAt) ==
    LET dialOK == failAt # "dial"
        exporterOK == failAt # "exporter"
        resourceOK == failAt # "resource"
        counterOK == failAt # "counter"
        histogramOK == failAt # "histogram"
        c == initCollector(dialOK)
        call == [NoCall EXCEPT !.op = "NewMeterProvider", !.conn = c.conn,
                               !.opened = (c.connsOpened # connsOpened)]
        mp == mpBuilt + 1
    IN  /\ tpBuilt + mpBuilt < MaxProviders
        /\ connsOpened < MaxConns
        /\ grpcConnection' = c.grpcConnection
        /\ connsOpened' = c.connsOpened
        /\ IF c.err # "none"
           THEN /\ last' = [call EXCEPT !.err = c.err]
                /\ UNCHANGED <<metrics, mpBuilt, mpReturned, otelGlobal>>
           ELSE IF ~exporterOK
           THEN /\ last' = [call EXCEPT !.err = "ExporterBuildFailed"]
                /\ UNCHANGED <<metrics, mpBuilt, mpReturned, otelGlobal>>
           ELSE IF ~resourceOK
           THEN /\ last' = [call EXCEPT !.err = "ResourceBuildFailed"]
                /\ UNCHANGED <<metrics, mpBuilt, mpReturned, otelGlobal>>
           ELSE /\ mpBuilt' = mp
                /\ otelGlobal' = [otelGlobal EXCEPT !.MeterProvider = mp]
                /\ IF ~counterOK \/ ~histogramOK
                   THEN /\ last' = [call EXCEPT !.err = "InstrumentBuildFailed"]
                        /\ UNCHANGED <<metrics, mpReturned>>
                   ELSE /\ metrics' = Metrics(mp, Nil)
                        /\ mpReturned' = mpReturned \cup {mp}
                        /\ last' = [call EXCEPT !.cleanup = mp]
        /\ UNCHANGED <<env, inflight, tracer, tpBuilt, tpShutdown, mpShutdown>>

\* NewMeterProvider that keeps an instrument pair that is already set.
NewMeterProvider_Once(failAt) ==
    LET dialOK == failAt # "dial"
        exporterOK == failAt # "exporter"
        resourceOK == failAt # "resource"
        counterOK == failAt # "counter"
        histogramOK == failAt # "histogram"
        c == initCollector(dialOK)
        call == [NoCall EXCEPT !.op = "NewMeterProvider", !.conn = c.conn,
                               !.opened = (c.connsOpened # connsOpened)]
        mp == mpBuilt + 1
    IN  /\ tpBuilt + mpBuilt < MaxProviders
        /\ connsOpened < MaxConns
        /\ grpcConnection' = c.grpcConnection
        /\ connsOpened' = c.connsOpened
        /\ IF c.err # "none"
           THEN /\ last' = [call EXCEPT !.err = c.err]
                /\ UNCHANGED <<metrics, mpBuilt, mpReturned, otelGlobal>>
           ELSE IF ~exporterOK
           THEN /\ last' = [call EXCEPT !.err = "ExporterBuildFailed"]
                /\ UNCHANGED <<metrics, mpBuilt, mpReturned, otelGlobal>>
           ELSE IF ~resourceOK
           THEN /\ last' = [call EXCEPT !.err = "ResourceBuildFailed"]
                /\ UNCHANGED <<metrics, mpBuilt, mpReturned, otelGlobal>>
           ELSE /\ mpBuilt' = mp
                /\ otelGlobal' = [otelGlobal EXCEPT !.MeterProvider = mp]
                /\ IF ~counterOK \/ ~histogramOK
                   THEN /\ last' = [call EXCEPT !.err = "InstrumentBuildFailed"]
                        /\ UNCHANGED <<metrics, mpReturned>>
                   ELSE /\ metrics' = IF metrics = Metrics(Nil, Nil) THEN Metrics(mp, mp) ELSE metrics
                        /\ mpReturned' = mpReturned \cup {mp}
                        /\ last' = [call EXCEPT !.cleanup = mp]
        /\ UNCHANGED <<env, inflight, tracer, tpBuilt, tpShutdown, mpShutdown>>

\* func NewMeterProvider(ctx, service) func()
\* failAt: the first external call that fails if it is made (grpc.NewClient,
\* otlpmetricgrpc.New, newResource, meter.Int64Counter, meter.Float64Histogram),
\* or "none".
NewMeterProvider(failAt) ==
    LET dialOK == failAt # "dial"
        exporterOK == failAt # "exporter"
        resourceOK == failAt # "resource"
        counterOK == failAt # "counter"
        histogramOK == failAt # "histogram"
        c == initCollector(dialOK)
        call == [NoCall EXCEPT !.op = "NewMeterProvider", !.conn = c.conn,
                               !.opened = (c.connsOpened # connsOpened)]
        mp == mpBuilt + 1
    IN  /\ tpBuilt + mpBuilt < MaxProviders
        /\ connsOpened < MaxConns
        /\ grpcConnection' = c.grpcConnection
        /\ connsOpened' = c.connsOpened
        /\ IF c.err # "none"
           THEN /\ last' = [call EXCEPT !.err = c.err]
                /\ UNCHANGED <<metrics, mpBuilt, mpReturned, otelGlobal>>
           ELSE IF ~exporterOK
           THEN /\ last' = [call EXCEPT !.err = "ExporterBuildFailed"]
                /\ UNCHANGED <<metrics, mpBuilt, mpReturned, otelGlobal>>
           ELSE IF ~resourceOK
           THEN /\ last' = [call EXCEPT !.err = "ResourceBuildFailed"]
                /\ UNCHANGED <<metrics, mpBuilt, mpReturned, otelGlobal>>
           ELSE /\ mpBuilt' = mp
                /\ otelGlobal' = [otelGlobal EXCEPT !.MeterProvider = mp]
                /\ IF ~counterOK \/ ~histogramOK
                   THEN /\ last' = [call EXCEPT !.err = "InstrumentBuildFailed"]
                        /\ UNCHANGED <<metrics, mpReturned>>
                   ELSE /\ metrics' = Metrics(mp, mp)
                        /\ mpReturned' = mpReturned \cup {mp}
                        /\ last' = [call EXCEPT !.cleanup = mp]
        /\ UNCHANGED <<env, inflight, tracer, tpBuilt, tpShutdown, mpShutdown>>

\* cleanup := func() { tp.Shutdown(ctx) }, the closure NewTraceProvider returned for tp
cleanup(tp) ==
    /\ tp \in 1..tpBuilt
    /\ tpShutdown' = tpShutdown \cup {tp}
    /\ last' = [NoCall EXCEPT !.op = "cleanup", !.tp = tp]
    /\ UNCHANGED <<env, inflight, grpcConnection, tracer, metrics, connsOpened, tpBuilt,
                   mpBuilt, mpReturned, mpShutdown, otelGlobal>>

\* shutdown := func() { mp.Shutdown(ctx) }, the closure NewMeterProvider returned for mp
shutdown(mp) ==
    /\ mp \in mpReturned
    /\ mpShutdown' = mpShutdown \cup {mp}
    /\ last' = [NoCall EXCEPT !.op = "shutdown", !.cleanup = mp]
    /\ UNCHANGED <<env, inflight, grpcConnection, tracer, metrics, connsOpened, tpBuilt,
                   mpBuilt, mpReturned, tpShutdown, otelGlobal>>

\* clean := func() {} / emptyCleanup := func() {}, returned when setup fails
emptyCleanup ==
    /\ last.op \in {"NewTraceProvider", "NewMeterProvider"}
    /\ last.cleanup = Nil
    /\ last' = [NoCall EXCEPT !.op = "emptyCleanup"]
    /\ UNCHANGED <<env, inflight, grpcConnection, tracer, metrics, connsOpened, tpBuilt,
                   mpBuilt, mpReturned, tpShutdown, mpShutdown, otelGlobal>>

\* StartSpan that tests only the connection before using the tracer.
StartSpan_NoNilCheck ==
    /\ IF grpcConnection = Nil
       THEN last' = [NoCall EXCEPT !.op = "StartSpan",
                                   !.span = [tracer |-> "noop", tp |-> Nil, name |-> "noop"]]
       ELSE IF tracer.kind = "nil"
       THEN last' = [NoCall EXCEPT !.op = "StartSpan", !.panicked = TRUE]
       ELSE last' = [NoCall EXCEPT !.op = "StartSpan",
                                   !.span = [tracer |-> tracer.kind, tp |-> tracer.tp,
                                             name |-> "caller:line"]]
    /\ UNCHANGED <<env, inflight, grpcConnection, tracer, metrics, connsOpened, providers, otelGlobal>>

\* func StartSpan(ctx, opts...) (context.Context, trace.Span)
\* The span names the tracer that started it and the name it was given;
\* Start on a nil tracer interface is a nil dereference.
StartSpan ==
    /\ IF tracer.kind = "nil" \/ grpcConnection = Nil
       THEN last' = [NoCall EXCEPT !.op = "StartSpan",
                                   !.span = [tracer |-> "noop", tp |-> Nil, name |-> "noop"]]
       ELSE last' = [NoCall EXCEPT !.op = "StartSpan",
                                   !.span = [tracer |-> tracer.kind, tp |-> tracer.tp,
                                             name |-> "caller:line"]]
    /\ UNCHANGED <<env, inflight, grpcConnection, tracer, metrics, connsOpened, providers, otelGlobal>>

\* ------------------------------------------------------------ HTTP wrapper
Methods == {"GET"}
Paths == {"/a"}
Requests == [Method : Methods, URLPath : Paths]

\* What the wrapped handler does with the writer it is given, in order.
HeaderCall(code) == [op |-> "WriteHeader", code |-> code]
BodyCall == [op |-> "Write", code |-> Nil]
WriterCalls == {HeaderCall(c) : c \in {StatusOK, StatusNotFound}} \cup {BodyCall}
Handlers == UNION {[1..n -> WriterCalls] : n \in 0..MaxWrites}

\* The embedded http.ResponseWriter: the status it has sent on the wire, Nil
\* before the header is committed.  The first WriteHeader commits; Write
\* commits StatusOK when nothing was committed before.
WireWriteHeader(w, code) == IF w = Nil THEN code ELSE w
WireWrite(w) == IF w = Nil THEN StatusOK ELSE w

\* NewResponseWriter that leaves statusCode at its zero value.
NewResponseWriter_ZeroStatus(w) == [ResponseWriter |-> w, statusCode |-> 0]

\* func NewResponseWriter(w http.ResponseWriter) *responseWriter
NewResponseWriter(w) == [ResponseWriter |-> w, statusCode |-> StatusOK]

\* func (rw *responseWriter) WriteHeader(code int)
WriteHeader(rw, code) ==
    [ResponseWriter |-> WireWriteHeader(rw.ResponseWriter, code), statusCode |-> code]

\* Write is promoted from the embedded http.ResponseWriter
Write(rw) == [rw EXCEPT !.ResponseWriter = WireWrite(rw.ResponseWriter)]

\* func (rw *responseWriter) Status() int
Status(rw) == rw.statusCode

\* next.ServeHTTP(rw, r): the handler's calls applied to rw in order
RECURSIVE ServeHTTP(_, _)
ServeHTTP(rw, h) ==
    IF h = <<>> THEN rw
    ELSE LET e == Head(h)
         IN  ServeHTTP(IF e.op = "WriteHeader" THEN WriteHeader(rw, e.code) ELSE Write(rw),
                       Tail(h))

\* Elapsed times time.Since(start).Seconds() may return.
Durations == {0, 1}

\* One measurement made on an instrument.
Measurement(inst, value, attrs) == [inst |-> inst, value |-> value, attrs |-> attrs]

\* metrics.RequestCounter.Add(ctx, 1, attrs) then
\* metrics.RequestHistogram.Record(ctx, duration, attrs); a method call on a
\* nil instrument interface panics and the rest of the wrapper does not run.
RecordMetrics(call, duration, attrs) ==
    IF metrics.RequestCounter = Nil
    THEN [call EXCEPT !.panicked = TRUE]
    ELSE IF metrics.RequestHistogram = Nil
    THEN [call EXCEPT !.panicked = TRUE,
                      !.adds = <<Measurement(metrics.RequestCounter, 1, attrs)>>]
    ELSE [call EXCEPT !.adds = <<Measurement(metrics.RequestCounter, 1, attrs)>>,
                      !.records = <<Measurement(metrics.RequestHistogram, duration, attrs)>>]

\* func MetricsMiddleware(next http.Handler) http.Handler, serving request r
\* with wrapped handler h that takes `duration` ticks.
MetricsMiddleware(r, h, duration) ==
    LET rw == ServeHTTP(NewResponseWriter(Nil), h)
        attrs == [method |-> r.Method, path |-> r.URLPath, status_code |-> Status(rw)]
        call == [NoCall EXCEPT !.op = "MetricsMiddleware", !.handler = h,
                               !.method = r.Method,
                               !.wire = rw.ResponseWriter, !.status = Status(rw)]
    IN  /\ last' = RecordMetrics(call, duration, attrs)
        /\ UNCHANGED <<env, inflight, grpcConnection, tracer, metrics, connsOpened, providers, otelGlobal>>

\* ------------------------------------------------------------ gRPC wrappers
FullMethods == {"/pkg.Svc/M"}
NilErr == [kind |-> "nil", code |-> CodeOK]
StatusErr(c) == [kind |-> "status", code |-> c]
PlainErr == [kind |-> "plain", code |-> Nil]
Errors == {NilErr, StatusErr(CodeNotFound), PlainErr}
Responses == {"resp"}

\* status.Code(err)
Code(err) ==
    IF err.kind = "nil" THEN CodeOK
    ELSE IF err.kind = "status" THEN err.code
    ELSE CodeUnknown

\* func UnaryServerMetricsInterceptor() grpc.UnaryServerInterceptor, one RPC
\* whose handler returns (resp, err) after `duration` ticks.
UnaryServerMetricsInterceptor(fullMethod, resp, err, duration) ==
    LET code == Code(err)
        attrs == [method |-> fullMethod, status_code |-> code]
        call == [NoCall EXCEPT !.op = "UnaryServerMetricsInterceptor",
                               !.method = fullMethod, !.code = code]
        done == RecordMetrics(call, duration, attrs)
    IN  /\ last' = IF done.panicked THEN done
                   ELSE [done EXCEPT !.ret = [resp |-> resp, err |-> err]]
        /\ UNCHANGED <<env, inflight, grpcConnection, tracer, metrics, connsOpened, providers, otelGlobal>>

\* func StreamServerMetricsInterceptor() grpc.StreamServerInterceptor, one
\* stream whose handler returns err after `duration` ticks.
StreamServerMetricsInterceptor(fullMethod, err, duration) ==
    LET code == Code(err)
        attrs == [method |-> fullMethod, status_code |-> code]
        call == [NoCall EXCEPT !.op = "StreamServerMetricsInterceptor",
                               !.method = fullMethod, !.code = code]
        done == RecordMetrics(call, duration, attrs)
    IN  /\ last' = IF done.panicked THEN done
                   ELSE [done EXCEPT !.ret = [resp |-> "none", err |-> err]]
        /\ UNCHANGED <<env, inflight, grpcConnection, tracer, metrics, connsOpened, providers, otelGlobal>>

\* ------------------------------------------- setup calls that run concurrently
\* initCollector takes no lock, so two goroutines in NewTraceProvider or
\* NewMeterProvider interleave at its statements.  The rest of a setup call,
\* after initCollector returns, is one step.
seqState == <<grpcConnection, tracer, metrics, connsOpened, providers, otelGlobal, last>>

\* A goroutine enters NewTraceProvider or NewMeterProvider and calls initCollector.
BeginSetup(g, op) ==
    /\ inflight[g].pc = "idle"
    /\ inflight' = [inflight EXCEPT ![g] = [Idle EXCEPT !.op = op, !.pc = "check"]]
    /\ UNCHANGED <<env, seqState>>

\* Values the unsynchronised read of grpcConnection may return to g: the
\* current value or, when the value was stored by another goroutine with no
\* synchronisation in between, still nil.
Visible(g) ==
    {grpcConnection} \cup
        IF \E h \in Goroutines \ {g} : inflight[h].opened /\ inflight[h].pc \in {"acquired", "done"}
        THEN {Nil} ELSE {}

\* if grpcConnection != nil { return grpcConnection, nil }
CheckCached(g) ==
    /\ inflight[g].pc = "check"
    /\ \E seen \in Visible(g) :
          inflight' = [inflight EXCEPT ![g] =
                          IF seen # Nil
                          THEN [@ EXCEPT !.conn = seen, !.pc = "acquired"]
                          ELSE [@ EXCEPT !.pc = "config"]]
    /\ UNCHANGED <<env, seqState>>

\* the OTEL_ENABLE and OTEL_COLLECTOR_ENDPOINT tests of initCollector
ReadConfig(g) ==
    /\ inflight[g].pc = "config"
    /\ inflight' = [inflight EXCEPT ![g] =
                       IF ToLower(Getenv(OTEL_ENABLE)) # STR_true
                       THEN [@ EXCEPT !.err = "Disabled", !.pc = "acquired"]
                       ELSE IF Getenv(OTEL_COLLECTOR_ENDPOINT) = STR_empty
                       THEN [@ EXCEPT !.err = "MissingEndpoint", !.pc = "acquired"]
                       ELSE [@ EXCEPT !.pc = "dial"]]
    /\ UNCHANGED <<env, seqState>>

\* conn, err := grpc.NewClient(otlpEndpoint, ...)
Dial(g, dialOK) ==
    /\ inflight[g].pc = "dial"
    /\ IF dialOK
       THEN /\ connsOpened' = connsOpened + 1
            /\ inflight' = [inflight EXCEPT ![g] =
                               [@ EXCEPT !.conn = connsOpened + 1, !.opened = TRUE,
                                         !.pc = "store"]]
       ELSE /\ inflight' = [inflight EXCEPT ![g] =
                               [@ EXCEPT !.err = "ConnectionFailed", !.pc = "acquired"]]
            /\ UNCHANGED connsOpened
    /\ UNCHANGED <<env, grpcConnection, tracer, metrics, providers, otelGlobal, last>>

\* grpcConnection = conn; return conn, nil
Store(g) ==
    /\ inflight[g].pc = "store"
    /\ grpcConnection' = inflight[g].conn
    /\ inflight' = [inflight EXCEPT ![g] = [@ EXCEPT !.pc = "acquired"]]
    /\ UNCHANGED <<env, tracer, metrics, connsOpened, providers, otelGlobal, last>>

\* NewTraceProvider from the return of initCollector to its own return.
FinishTrace(g, failAt) ==
    LET c == inflight[g]
        call == [NoCall EXCEPT !.op = "NewTraceProvider", !.conn = c.conn,
                               !.opened = c.opened]
    IN  /\ c.pc = "acquired"
        /\ c.op = "NewTraceProvider"
        /\ inflight' = [inflight EXCEPT ![g] = [@ EXCEPT !.pc = "done"]]
        /\ IF c.err # "none"
           THEN /\ tracer' = NoopTracer
                /\ last' = [call EXCEPT !.err = c.err]
                /\ UNCHANGED <<tpBuilt, otelGlobal>>
           ELSE IF failAt = "exporter"
           THEN /\ last' = [call EXCEPT !.err = "ExporterBuildFailed"]
                /\ UNCHANGED <<tracer, tpBuilt, otelGlobal>>
           ELSE IF failAt = "resource"
           THEN /\ last' = [call EXCEPT !.err = "ResourceBuildFailed"]
                /\ UNCHANGED <<tracer, tpBuilt, otelGlobal>>
           ELSE LET tp == tpBuilt + 1
                IN  /\ tpBuilt' = tp
                    /\ otelGlobal' = [otelGlobal EXCEPT !.TracerProvider = tp,
                                                        !.Propagator = TRUE]
                    /\ tracer' = SdkTracer(tp)
                    /\ last' = [call EXCEPT !.tp = tp, !.cleanup = tp]
        /\ UNCHANGED <<env, grpcConnection, connsOpened, metrics, mpBuilt, mpReturned,
                       tpShutdown, mpShutdown>>

\* NewMeterProvider from the return of initCollector to its own return.
FinishMeter(g, failAt) ==
    LET c == inflight[g]
        call == [NoCall EXCEPT !.op = "NewMeterProvider", !.conn = c.conn,
                               !.opened = c.opened]
        mp == mpBuilt + 1
    IN  /\ c.pc = "acquired"
        /\ c.op = "NewMeterProvider"
        /\ inflight' = [inflight EXCEPT ![g] = [@ EXCEPT !.pc = "done"]]
        /\ IF c.err # "none"
           THEN /\ last' = [call EXCEPT !.err = c.err]
                /\ UNCHANGED <<metrics, mpBuilt, mpReturned, otelGlobal>>
           ELSE IF failAt = "exporter"
           THEN /\ last' = [call EXCEPT !.err = "ExporterBuildFailed"]
                /\ UNCHANGED <<metrics, mpBuilt, mpReturned, otelGlobal>>
           ELSE IF failAt = "resource"
           THEN /\ last' = [call EXCEPT !.err = "ResourceBuildFailed"]
                /\ UNCHANGED <<metrics, mpBuilt, mpReturned, otelGlobal>>
           ELSE /\ mpBuilt' = mp
                /\ otelGlobal' = [otelGlobal EXCEPT !.MeterProvider = mp]
                /\ IF failAt \in {"counter", "histogram"}
                   THEN /\ last' = [call EXCEPT !.err = "InstrumentBuildFailed"]
                        /\ UNCHANGED <<metrics, mpReturned>>
                   ELSE /\ metrics' = Metrics(mp, mp)
                        /\ mpReturned' = mpReturned \cup {mp}
                        /\ last' = [call EXCEPT !.cleanup = mp]
        /\ UNCHANGED <<env, grpcConnection, connsOpened, tracer, tpBuilt, tpShutdown,
                       mpShutdown>>

\* ------------------------------------------------------------------ claims
SetupOps == {"NewTraceProvider", "NewMeterProvider"}
WrapperOps == {"MetricsMiddleware", "UnaryServerMetricsInterceptor",
               "StreamServerMetricsInterceptor"}
AcquireErrors == {"Disabled", "MissingEndpoint", "ConnectionFailed"}

\* The WriteHeader calls of a handler, in order.
HeaderCalls(h) == SelectSeq(h, LAMBDA e : e.op = "WriteHeader")

\* C1: when the wrapped handler calls WriteHeader more than once, the status
\* the middleware reads from its responseWriter after the handler returns is
\* the code of the first WriteHeader call.
C1_FirstWriteWins ==
    (last.op = "MetricsMiddleware" /\ Len(HeaderCalls(last.handler)) > 1)
        => last.status = HeaderCalls(last.handler)[1].code

\* C2: while no NewMeterProvider call has succeeded, every invocation of the
\* HTTP middleware and of the two gRPC interceptors runs to completion: it
\* does not panic and makes its two measurements.
C2_WrappersCompleteWithoutSetup ==
    (last.op \in WrapperOps /\ mpReturned = {})
        => (~last.panicked /\ Len(last.adds) = 1 /\ Len(last.records) = 1)

\* C3: a setup call made while OTEL_ENABLE is anything but exactly "true"
\* opens no connection and fails its acquire with Disabled, whatever setup
\* calls came before, and NewTraceProvider then leaves a noop tracer as the
\* active tracer.  (The tracer is read for NewTraceProvider only, the one
\* setup call that assigns it.)
C3_DisabledUnlessExactlyTrue ==
    [][(last'.op \in SetupOps /\ last' # last /\ Getenv(OTEL_ENABLE) # STR_true)
          => /\ connsOpened' = connsOpened
             /\ last'.err = "Disabled"
             /\ last'.op = "NewTraceProvider" => tracer'.kind = "noop"]_vars

\* C4: at most one connection is ever opened, and once the memoized
\* connection is set it never changes and every later setup call gets that
\* same connection from initCollector without opening another.
C4_ConnectionMemoized ==
    [][/\ connsOpened' <= 1
       /\ grpcConnection # Nil =>
            /\ grpcConnection' = grpcConnection
            /\ connsOpened' = connsOpened
            /\ (last'.op \in SetupOps /\ last' # last)
                 => (last'.conn = grpcConnection /\ ~last'.opened)]_vars

C4_Witness ==
    /\ last.op \in SetupOps
    /\ last.conn # Nil
    /\ last.conn = grpcConnection
    /\ ~last.opened
    /\ tpBuilt + mpBuilt >= 2

\* C5 as stated: whenever NewTraceProvider fails at channel acquisition,
\* exporter build or resource build, on return the active tracer is a noop
\* tracer, the returned provider is nil and the returned cleanup is the
\* empty function.
C5_NoopTracerOnEveryFailure ==
    (last.op = "NewTraceProvider" /\ last.err # "none")
        => (tracer.kind = "noop" /\ last.tp = Nil /\ last.cleanup = Nil)

\* C5 amended: a failing NewTraceProvider returns a nil provider and the empty
\* cleanup; it installs the noop tracer when the failure is the channel
\* acquisition, and leaves the active tracer as it was when the failure is
\* the exporter or the resource build.
C5_NoopTracerOnAcquireFailure ==
    /\ [](( last.op = "NewTraceProvider" /\ last.err # "none")
            => /\ last.tp = Nil
               /\ last.cleanup = Nil
               /\ last.err \in AcquireErrors => tracer.kind = "noop")
    /\ [][(/\ last'.op = "NewTraceProvider"
           /\ last' # last
           /\ last'.err \in {"ExporterBuildFailed", "ResourceBuildFailed"})
             => tracer' = tracer]_vars

C5_Witness ==
    /\ last.op = "NewTraceProvider"
    /\ last.err = "ResourceBuildFailed"
    /\ tracer.kind = "sdk"

\* C6: while no NewTraceProvider call has succeeded, StartSpan does not
\* panic and returns a span of a noop tracer; and StartSpan names the span
\* after its caller exactly when a tracer is installed and the connection
\* exists.
C6_StartSpanNoopBeforeSetup ==
    last.op = "StartSpan" =>
        /\ ~last.panicked
        /\ tpBuilt = 0 => last.span.tracer = "noop"
        /\ last.span.name = "caller:line" <=> (tracer.kind # "nil" /\ grpcConnection # Nil)
        /\ last.span.name # "caller:line" => (last.span.tracer = "noop" /\ last.span.name = "noop")

C6_Witness ==
    /\ last.op = "StartSpan"
    /\ tpBuilt = 0
    /\ grpcConnection # Nil
    /\ tracer.kind = "nil"
    /\ last.span.tracer = "noop"

\* C7: when NewMeterProvider returns without any step failing, both
\* instruments of the pair are set to the instruments it created, and every
\* wrapper invocation from then on completes with one measurement on each
\* instrument of the current pair.
C7_InstrumentsSetAfterSetup ==
    /\ (last.op = "NewMeterProvider" /\ last.err = "none")
         => /\ metrics.RequestCounter # Nil
            /\ metrics.RequestHistogram # Nil
            /\ metrics = Metrics(last.cleanup, last.cleanup)
    /\ (last.op \in WrapperOps /\ mpReturned # {})
         => /\ ~last.panicked
            /\ Len(last.adds) = 1
            /\ Len(last.records) = 1
            /\ last.adds[1].inst = metrics.RequestCounter
            /\ last.records[1].inst = metrics.RequestHistogram
            /\ metrics.RequestCounter # Nil
            /\ metrics.RequestHistogram # Nil

C7_Witness ==
    /\ last.op \in WrapperOps
    /\ mpReturned # {}
    /\ Len(last.records) = 1

\* C8: when the wrapped handler never calls WriteHeader, with or without
\* writing a body, the status the middleware reads after the handler returns
\* is 200 and every measurement it makes carries status_code 200.
C8_DefaultStatusOK ==
    (last.op = "MetricsMiddleware" /\ HeaderCalls(last.handler) = <<>>)
        => /\ last.status = StatusOK
           /\ \A i \in 1..Len(last.adds) : last.adds[i].attrs.status_code = StatusOK
           /\ \A i \in 1..Len(last.records) : last.records[i].attrs.status_code = StatusOK

C8_Witness ==
    /\ last.op = "MetricsMiddleware"
    /\ last.handler = <<BodyCall>>
    /\ Len(last.adds) = 1
    /\ last.adds[1].attrs.status_code = StatusOK

\* C9 as stated: once the instrument pair is set, no later step replaces it.
C9_PairNeverReplaced ==
    [][metrics # Metrics(Nil, Nil) => metrics' = metrics]_vars

\* C9 amended: the instrument pair changes only in a NewMeterProvider call
\* that succeeds; every such call assigns the pair created by the provider it
\* has just built, replacing any earlier pair; no step unsets an instrument.
C9_PairAssignedBySuccessfulSetupOnly ==
    [][/\ metrics' # metrics
            => /\ last'.op = "NewMeterProvider"
               /\ last'.err = "none"
               /\ mpBuilt' = mpBuilt + 1
       /\ (last'.op = "NewMeterProvider" /\ last'.err = "none" /\ last' # last)
            => /\ metrics' = Metrics(mpBuilt', mpBuilt')
               /\ metrics' # metrics
       /\ metrics.RequestCounter # Nil => metrics'.RequestCounter # Nil
       /\ metrics.RequestHistogram # Nil => metrics'.RequestHistogram # Nil]_vars

C9_Witness ==
    /\ last.op = "NewMeterProvider"
    /\ last.err = "none"
    /\ Cardinality(mpReturned) = 2
    /\ metrics = Metrics(2, 2)

\* C10: in every environment where IsEnabled() is true, a first-time
\* initCollector fails neither with Disabled nor with MissingEndpoint.
C10_IsEnabledImpliesConfigured ==
    (IsEnabledValue /\ grpcConnection = Nil)
        => \A dialOK \in BOOLEAN :
              initCollector(dialOK).err \notin {"Disabled", "MissingEndpoint"}


\* C11: under every interleaving of concurrent setup calls at most one
\* connection is ever opened, and every goroutine whose initCollector has
\* returned a connection holds the memoized one.
C11_OneChannelUnderConcurrency ==
    /\ connsOpened <= 1
    /\ \A g \in Goroutines :
          (inflight[g].pc \in {"acquired", "done"} /\ inflight[g].conn # Nil)
              => inflight[g].conn = grpcConnection


\* The two gRPC interceptors.
RPCOps == {"UnaryServerMetricsInterceptor", "StreamServerMetricsInterceptor"}

\* What an interceptor invocation must have recorded and returned: one Add of
\* 1 and one Record, with the same attributes (full method, status code of the
\* handler's error), and the handler's result as its own.
OneMeasurementEach(call) ==
    /\ ~call.panicked
    /\ Len(call.adds) = 1
    /\ Len(call.records) = 1
    /\ call.adds[1].value = 1
    /\ call.records[1].value \in Durations
    /\ call.adds[1].attrs = call.records[1].attrs
    /\ call.adds[1].attrs = [method |-> call.method, status_code |-> Code(call.ret.err)]
    /\ call.ret.err \in Errors
    /\ call.ret.err.kind = "nil" => call.adds[1].attrs.status_code = CodeOK

\* C12: every invocation of the unary or the streaming interceptor makes
\* exactly one counter increment of 1 and one histogram observation, both
\* with the attributes (full method, status code of the handler's error, 0
\* for a nil error), and returns the handler's response and error.
C12_InterceptorRecordsOnce ==
    last.op \in RPCOps => OneMeasurementEach(last)

\* The statement of C12 restricted to invocations made after a successful
\* NewMeterProvider; it holds, which places the failure of C12 in the unset
\* instruments alone.
C12_HoldsOnceInstrumentsSet ==
    (last.op \in RPCOps /\ mpReturned # {}) => OneMeasurementEach(last)

\* C13: once set, the memoized connection is never cleared or replaced by
\* any later call; a shutdown closure leaves connection, tracer and
\* instrument pair as they were; StartSpan on a tracer whose provider was
\* shut down still starts a caller-named span on that tracer; and a setup
\* call made when the connection is set gets that connection and opens no
\* other, whatever OTEL_ENABLE is by then.
C13_ChannelAndHandlesSurviveShutdown ==
    [][/\ grpcConnection # Nil => grpcConnection' = grpcConnection
       /\ (last'.op \in {"cleanup", "shutdown", "emptyCleanup"} /\ last' # last)
            => (tracer' = tracer /\ metrics' = metrics /\ connsOpened' = connsOpened)
       /\ (last'.op = "StartSpan" /\ last' # last /\ tracer.kind = "sdk")
            => /\ last'.span = [tracer |-> "sdk", tp |-> tracer.tp, name |-> "caller:line"]
               /\ tracer' = tracer
       /\ (last'.op \in WrapperOps /\ last' # last /\ metrics.RequestCounter \in mpShutdown)
            => /\ ~last'.panicked
               /\ last'.adds[1].inst = metrics.RequestCounter
               /\ metrics' = metrics
       /\ (last'.op \in SetupOps /\ last' # last /\ grpcConnection # Nil)
            => /\ last'.conn = grpcConnection
               /\ ~last'.opened
               /\ last'.err \notin AcquireErrors]_vars

C13_Witness ==
    /\ last.op = "StartSpan"
    /\ tracer.kind = "sdk"
    /\ tracer.tp \in tpShutdown
    /\ metrics.RequestCounter \in mpShutdown
    /\ last.span.tracer = "sdk"
    /\ grpcConnection # Nil
    /\ ToLower(Getenv(OTEL_ENABLE)) # STR_true


\* ------------------------------------------------------------ specification
Next ==
    \/ Setenv
    \/ IsEnabled
    \/ \E failAt \in TraceFailures : NewTraceProvider(failAt)
    \/ \E failAt \in MeterFailures : NewMeterProvider(failAt)
    \/ \E tp \in 1..MaxProviders : cleanup(tp)
    \/ \E mp \in 1..MaxProviders : shutdown(mp)
    \/ emptyCleanup
    \/ StartSpan
    \/ \E r \in Requests, h \in Handlers, d \in Durations : MetricsMiddleware(r, h, d)
    \/ \E m \in FullMethods, resp \in Responses, err \in Errors, d \in Durations :
          UnaryServerMetricsInterceptor(m, resp, err, d)
    \/ \E m \in FullMethods, err \in Errors, d \in Durations :
          StreamServerMetricsInterceptor(m, err, d)

Spec == Init /\ [][Next]_vars

\* Two goroutines, each making one setup call, with no other calls in between.
NextConcurrent ==
    \/ \E g \in Goroutines, op \in {"NewTraceProvider", "NewMeterProvider"} : BeginSetup(g, op)
    \/ \E g \in Goroutines : CheckCached(g)
    \/ \E g \in Goroutines : ReadConfig(g)
    \/ \E g \in Goroutines, dialOK \in BOOLEAN : Dial(g, dialOK)
    \/ \E g \in Goroutines : Store(g)
    \/ \E g \in Goroutines, failAt \in TraceFailures \ {"dial"} : FinishTrace(g, failAt)
    \/ \E g \in Goroutines, failAt \in MeterFailures \ {"dial"} : FinishMeter(g, failAt)

SpecConcurrent == Init /\ [][NextConcurrent]_vars
====
